---- MODULE Spec2Model ----
(***************************************************************************)
(* Model of offlineimap/folder/LocalStatusSQLite.py: the SQLite backend of *)
(* the local status cache (LocalStatusSQLiteFolder) and the file-level     *)
(* lock it shares between instances (DatabaseFileLock).                    *)
(*                                                                         *)
(* Strings are sequences of one-character strings, so that join, split,    *)
(* strip and sorted are computed the way the Python code computes them.    *)
(***************************************************************************)
EXTENDS Integers, Sequences, FiniteSets, TLC

VARIABLES
    dbver,      \* metadata db_version of the file: 0 = no schema yet, 1, 2
    dbcols,     \* columns of table status besides id and flags
    rows,       \* committed rows of table status: uid -> row
    users,      \* DatabaseFileLock._counter of the file
    conn,       \* per instance: self.connection ("none", "open", "closed")
    mirror,     \* per instance: self.messagelist, uid -> message record
    newfolder,  \* per instance: self._newfolder
    life,       \* per instance: "new", "open" once openfiles has returned, "closed"
                \* once closefiles was called after that
    hung,       \* instances whose thread waits forever for the file lock
    last,       \* the call that made the last step, its arguments and outcome
    nops,       \* number of calls made so far
    rt,         \* round trip of one record: input, stored row, reloaded message
    bk,         \* one dict of labels saved in bulk and saved uid by uid
    pc,         \* per writer thread: where it is in its call
    job,        \* per writer thread: the statement it issues, inside a scope or not
    pylock,     \* the thread holding DatabaseFileLock._lock of the file, 0 if none
    pending,    \* per writer's connection: its open transaction, not yet committed
    intx,       \* per writer's instance: self._in_transactions
    reading,    \* another connection is stepping through a SELECT on the file
    reads,      \* number of such SELECTs started so far
    locked,     \* the writers whose call has met 'database is locked'
    tx,         \* one instance's transaction scopes: nesting counter and commits
    ct,         \* threads constructing instances: the lock registry and their steps
    wx          \* one call of __sql_write against a store that raises errors

facadeVars == <<dbver, dbcols, rows, users, conn, mirror, newfolder, life, hung, last, nops>>

\* Table status apart, what the writer threads and the reader change.
concVars == <<pc, job, pylock, pending, intx, reading, reads, locked>>

otherVars == <<rt, bk, tx, ct, wx, concVars>>

vars == <<facadeVars, otherVars>>

(***************************************************************************)
(* Bounds of the model.                                                    *)
(***************************************************************************)
MaxUid == 2
MaxOps == 5
MaxCalls == 2
MaxMtime == 1
MaxList == 3
MaxDict == 2
MaxWriters == 2
MaxReads == 1
MaxDepth == 2
MaxSteps == 6
MaxBusy == 3
MaxCtors == 3

Insts == {1, 2}
Writers == 1..MaxWriters
Uids == 0..MaxUid
UidArgs == -1..MaxUid
Mtimes == 0..MaxMtime
FlagPool == {"S", "T"}
LabelPoolRT == {<<"a">>, <<"b">>, <<"a", "b">>, <<"a", ",", "b">>, <<" ", "a">>}

\* Current version of the db format.
cur_version == 2

\* SQL NULL in a text column and in an integer column (None in Python).
NullStr == <<"NULL">>
NullInt == -1

(***************************************************************************)
(* Python string helpers: sorted(), str.join(), str.split(','),            *)
(* str.strip().                                                            *)
(***************************************************************************)
\* The characters of the model in code point order.
Alphabet == <<" ", ",", "S", "T", "a", "b">>

Rank(c) == CHOOSE i \in DOMAIN Alphabet : Alphabet[i] = c

RECURSIVE StrLess(_, _)
StrLess(s, t) ==
    IF s = <<>> THEN t # <<>>
    ELSE IF t = <<>> THEN FALSE
    ELSE IF Head(s) = Head(t) THEN StrLess(Tail(s), Tail(t))
    ELSE Rank(Head(s)) < Rank(Head(t))

RECURSIVE Sorted(_)
Sorted(S) ==
    IF S = {} THEN <<>>
    ELSE LET m == CHOOSE x \in S : \A y \in S : x = y \/ StrLess(x, y)
         IN  <<m>> \o Sorted(S \ {m})

RECURSIVE Join(_, _)
Join(sep, ss) ==
    IF ss = <<>> THEN <<>>
    ELSE IF Len(ss) = 1 THEN ss[1]
    ELSE ss[1] \o sep \o Join(sep, Tail(ss))

RECURSIVE Split(_)
Split(s) ==
    IF \A k \in DOMAIN s : s[k] # ","
    THEN <<s>>
    ELSE LET k == CHOOSE j \in DOMAIN s :
                      s[j] = "," /\ \A h \in 1..(j - 1) : s[h] # ","
         IN  <<SubSeq(s, 1, k - 1)>> \o Split(SubSeq(s, k + 1, Len(s)))

RECURSIVE LStrip(_)
LStrip(s) == IF s # <<>> /\ Head(s) = " " THEN LStrip(Tail(s)) ELSE s

RECURSIVE RStrip(_)
RStrip(s) ==
    IF s # <<>> /\ s[Len(s)] = " " THEN RStrip(SubSeq(s, 1, Len(s) - 1)) ELSE s

Strip(s) == RStrip(LStrip(s))

Range(f) == {f[x] : x \in DOMAIN f}

(***************************************************************************)
(* Serialisation of a message (savemessage, saveall) and its               *)
(* reconstruction from a row (cachemessagelist).                           *)
(***************************************************************************)
\* ''.join(sorted(flags))
SerFlags(flags) == Join(<<>>, Sorted({<<c>> : c \in flags}))

\* ', '.join(sorted(labels))
SerLabels(labels) == Join(<<",", " ">>, Sorted(labels))

\* set(row[1])
ParseFlags(s) == Range(s)

\* set([lb.strip() for lb in row[3].split(',') if len(lb.strip()) > 0]);
\* None has no split(): AttributeError, labels = set()
ParseLabels(s) ==
    IF s = NullStr THEN {}
    ELSE {Strip(p) : p \in Range(Split(s))} \ {<<>>}

\* The tuple (flags, mtime, labels) written for a message.
StatusRow(flags, mtime, labels) ==
    [present |-> TRUE, flags |-> SerFlags(flags), mtime |-> mtime,
     labels |-> SerLabels(labels)]

\* msglist_item_initializer(uid) overwritten with the row's columns.
MsgOfRow(row) ==
    [present |-> TRUE, flags |-> ParseFlags(row.flags),
     labels |-> ParseLabels(row.labels), mtime |-> row.mtime]

\* The message record savemessage puts into messagelist.
Msg(flags, mtime, labels) ==
    [present |-> TRUE, flags |-> flags, labels |-> labels, mtime |-> mtime]

\* A uid without a row in table status, and a uid not in messagelist.
NoRow == [present |-> FALSE, flags |-> <<>>, mtime |-> 0, labels |-> <<>>]
NoMsg == [present |-> FALSE, flags |-> {}, labels |-> {}, mtime |-> 0]
NoRows == [u \in Uids |-> NoRow]
NoMsgs == [u \in Uids |-> NoMsg]

\* No round trip under way.
RtOff == [pc |-> "off", flags |-> {}, labels |-> {}, row |-> StatusRow({}, 0, {}),
          out |-> Msg({}, 0, {})]

\* No call made yet.
NoCall == [op |-> "init", inst |-> 0, out |-> "ok", stmt |-> "none", cause |-> "none",
           uids |-> {}]

\* No comparison of bulk and single label saves under way.
BkOff == [pc |-> "off", m |-> NoMsgs, tbl |-> NoRows, items |-> <<>>,
          bulk |-> [m |-> NoMsgs, tbl |-> NoRows, out |-> "ok"], each |-> {}]

\* No transaction scope, no construction and no single write under way.
TxOff == [pc |-> "off"]
CtOff == [pc |-> "off"]
WxOff == [pc |-> "off"]

\* A connection without an open transaction.
NoTxn == [active |-> FALSE, tbl |-> NoRows, excl |-> FALSE]

\* No writer thread and no reader at work.
ConcIdle ==
    /\ pc = [t \in Writers |-> "off"]
    /\ job = [t \in Writers |-> [kind |-> "none", scoped |-> FALSE]]
    /\ pylock = 0
    /\ pending = [t \in Writers |-> NoTxn]
    /\ intx = [t \in Writers |-> 0]
    /\ reading = FALSE
    /\ reads = 0
    /\ locked = {}


(***************************************************************************)
(* The store: what connection.execute / executemany do to table status.    *)
(* A statement is [kind, cols, params]: kind is the SQL verb, cols the     *)
(* columns it names, params the sequence of parameter tuples (one for      *)
(* execute, one per row for executemany), each [uid, row].                 *)
(***************************************************************************)
Stmt(kind, cols, params) == [kind |-> kind, cols |-> cols, params |-> params]

Param(uid, row) == [uid |-> uid, row |-> row]

\* The row after UPDATE status SET <cols> = <new's values>.
UpdatedRow(old, cols, new) ==
    [present |-> TRUE,
     flags   |-> IF "flags" \in cols THEN new.flags ELSE old.flags,
     mtime   |-> IF "mtime" \in cols THEN new.mtime ELSE old.mtime,
     labels  |-> IF "labels" \in cols THEN new.labels ELSE old.labels]

\* One execution of the statement with one parameter tuple.
\* INSERT of an id that has a row violates the primary key.
ExecOne(tbl, kind, cols, p) ==
    CASE kind = "INSERT" ->
           IF tbl[p.uid].present
           THEN [tbl |-> tbl, out |-> "IntegrityError"]
           ELSE [tbl |-> [tbl EXCEPT ![p.uid] = p.row], out |-> "ok"]
      [] kind = "REPLACE" ->
           [tbl |-> [tbl EXCEPT ![p.uid] = p.row], out |-> "ok"]
      [] kind = "UPDATE" ->
           IF tbl[p.uid].present
           THEN [tbl |-> [tbl EXCEPT ![p.uid] = UpdatedRow(tbl[p.uid], cols, p.row)],
                 out |-> "ok"]
           ELSE [tbl |-> tbl, out |-> "ok"]
      [] kind = "DELETE" ->
           [tbl |-> [tbl EXCEPT ![p.uid] = NoRow], out |-> "ok"]

RECURSIVE ExecParams(_, _, _, _)
ExecParams(tbl, kind, cols, ps) ==
    IF ps = <<>> THEN [tbl |-> tbl, out |-> "ok"]
    ELSE LET r == ExecOne(tbl, kind, cols, Head(ps))
         IN  IF r.out # "ok" THEN r ELSE ExecParams(r.tbl, kind, cols, Tail(ps))

\* The statement names a table or a column the file does not have.
NoSuchColumn(ver, cols, st) ==
    \/ ver = 0
    \/ ~((st.cols \ {"flags"}) \subseteq cols)

\* What self.connection.execute raises before the statement runs: None has
\* no execute, a closed connection refuses it.
NoConnection(c) ==
    CASE c = "none" -> "AttributeError"
      [] c = "closed" -> "ProgrammingError"
      [] OTHER -> "ok"

\* __sql_write on a connection without contention: the statement runs and is
\* committed, or the call raises. `err` is an operational error of the store
\* other than 'database is locked' (it is re-raised). Nothing is applied when
\* the call raises.
SqlWrite(c, ver, cols, tbl, st, err) ==
    IF NoConnection(c) # "ok"
    THEN [tbl |-> tbl, out |-> NoConnection(c)]
    ELSE IF err \/ NoSuchColumn(ver, cols, st)
    THEN [tbl |-> tbl, out |-> "OperationalError"]
    ELSE LET r == ExecParams(tbl, st.kind, st.cols, st.params)
         IN  IF r.out = "ok" THEN r ELSE [tbl |-> tbl, out |-> r.out]

\* The except clause of __sql_write with success forgotten: the loop ends
\* after 'database is locked' when the statement had run.
OnOperationalErrorKeep(success, msg) ==
    [success |-> success,
     raise   |-> msg \notin {"cannot commit - no transaction is active",
                             "database is locked"}]

\* The except clause of __sql_write without the retry: 'database is locked'
\* is raised again like any other error.
OnOperationalErrorRaise(success, msg) ==
    [success |-> success,
     raise   |-> msg # "cannot commit - no transaction is active"]

\* The except clause of __sql_write: what becomes of success and whether the
\* error is raised again, by the message of the OperationalError.
OnOperationalError(success, msg) ==
    CASE msg = "cannot commit - no transaction is active" ->
           [success |-> success, raise |-> FALSE]
      [] msg = "database is locked" ->
           [success |-> FALSE, raise |-> FALSE]
      [] OTHER ->
           [success |-> success, raise |-> TRUE]

AllCols == {"flags", "mtime", "labels"}

\* INSERT INTO status (id,flags,mtime,labels) VALUES (?,?,?,?)
InsertStmt(uid, flags, mtime, labels) ==
    Stmt("INSERT", AllCols, <<Param(uid, StatusRow(flags, mtime, labels))>>)

\* UPDATE status SET flags=? WHERE id=?
FlagsStmt(uid, flags) == Stmt("UPDATE", {"flags"}, <<Param(uid, StatusRow(flags, 0, {}))>>)

\* DELETE FROM status WHERE id=?, once per uid of the sequence
DeleteStmt(us) == Stmt("DELETE", {}, [k \in DOMAIN us |-> Param(us[k], NoRow)])

(***************************************************************************)
(* The handlers of LocalStatusSQLiteFolder as functions of what they read: *)
(* v = [c, ver, cols, m, tbl] is the instance's connection, the file's     *)
(* schema, the instance's messagelist and table status. Each yields the    *)
(* messagelist and the table it leaves, how the call ended (out: "ok" or   *)
(* the exception that left it), the statement it issued and, for a wrapped *)
(* exception, its cause.                                                   *)
(***************************************************************************)
Res(m, tbl, out, stmt, cause) ==
    [m |-> m, tbl |-> tbl, out |-> out, stmt |-> stmt, cause |-> cause]

Write(v, st, err) == SqlWrite(v.c, v.ver, v.cols, v.tbl, st, err)

\* uidexists(uid): uid in self.messagelist
uidexists(m, uid) == uid \in DOMAIN m /\ m[uid].present

savemessageflags(v, uid, flags, err) ==
    IF ~uidexists(v.m, uid)
    THEN Res(v.m, v.tbl, "AssertionError", "none", "none")
    ELSE LET m2 == [v.m EXCEPT ![uid].flags = flags]
             w  == Write(v, FlagsStmt(uid, flags), err)
         IN  Res(m2, w.tbl, w.out, "UPDATE", "none")

savemessage(v, uid, flags, mtime, labels, err) ==
    IF uid < 0
    THEN Res(v.m, v.tbl, "ok", "none", "none")
    ELSE IF uidexists(v.m, uid)
    THEN savemessageflags(v, uid, flags, err)
    ELSE LET m2 == [v.m EXCEPT ![uid] = Msg(flags, mtime, labels)]
             w  == Write(v, InsertStmt(uid, flags, mtime, labels), err)
         IN  IF w.out = "ok"
             THEN Res(m2, w.tbl, "ok", "INSERT", "none")
             ELSE Res(m2, w.tbl, "UserWarning", "INSERT", w.out)

\* `if mtime:` is false for None and for 0.
Truthy(mtime) == mtime # NullInt /\ mtime # 0

savemessagelabels(v, uid, labels, mtime, err) ==
    IF ~uidexists(v.m, uid)
    THEN Res(v.m, v.tbl, "KeyError", "none", "none")
    ELSE LET m1 == [v.m EXCEPT ![uid].labels = labels]
             m2 == IF Truthy(mtime) THEN [m1 EXCEPT ![uid].mtime = mtime] ELSE m1
             cs == IF Truthy(mtime) THEN {"labels", "mtime"} ELSE {"labels"}
             w  == Write(v, Stmt("UPDATE", cs,
                                 <<Param(uid, StatusRow({}, mtime, labels))>>), err)
         IN  Res(m2, w.tbl, w.out, "UPDATE", "none")

\* for uid, x in items: self.messagelist[uid][field] = x, up to the first uid
\* that is not in messagelist (KeyError).
RECURSIVE SetEach(_, _, _)
SetEach(m, items, field) ==
    IF items = <<>> THEN [m |-> m, out |-> "ok"]
    ELSE LET uid == Head(items)[1]
             x   == Head(items)[2]
         IN  IF ~uidexists(m, uid) THEN [m |-> m, out |-> "KeyError"]
             ELSE SetEach(IF field = "labels"
                          THEN [m EXCEPT ![uid].labels = x]
                          ELSE [m EXCEPT ![uid].mtime = x],
                          Tail(items), field)

\* labels.items() of the dict, in its order: a sequence of <<uid, labels>>.
LabelParams(items) ==
    [k \in DOMAIN items |-> Param(items[k][1], StatusRow({}, 0, items[k][2]))]

\* The loop over labels.items() left after its first item.
LabelsBulkMirrorFirst(m, items) ==
    SetEach(m, IF items = <<>> THEN items ELSE <<Head(items)>>, "labels")

\* for uid, l in labels.items(): self.messagelist[uid]['labels'] = l
LabelsBulkMirror(m, items) == SetEach(m, items, "labels")

savemessageslabelsbulk(v, items, err) ==
    LET w == Write(v, Stmt("UPDATE", {"labels"}, LabelParams(items)), err)
    IN  IF w.out # "ok" THEN Res(v.m, v.tbl, w.out, "UPDATE", "none")
        ELSE LET r == LabelsBulkMirror(v.m, items)
             IN  Res(r.m, w.tbl, r.out, "UPDATE", "none")

\* The uids of a list in the order sorted() gives them; addmessageslabels and
\* deletemessageslabels write the same row for a uid however often and
\* wherever it occurs in uids, so the list is taken as the set of its uids.
RECURSIVE UidSeq(_)
UidSeq(S) ==
    IF S = {} THEN <<>>
    ELSE LET u == CHOOSE x \in S : \A y \in S : x <= y
         IN  <<u>> \o UidSeq(S \ {u})

\* add = TRUE: newlabels = old | labels; add = FALSE: newlabels = old - labels
NewLabels(old, labels, add) == IF add THEN old \cup labels ELSE old \ labels

changemessageslabels(v, uids, labels, add, err) ==
    IF \E u \in uids : ~uidexists(v.m, u)
    THEN Res(v.m, v.tbl, "KeyError", "none", "none")
    ELSE LET us == UidSeq(uids)
             ps == [k \in DOMAIN us |->
                      Param(us[k], StatusRow({}, 0, NewLabels(v.m[us[k]].labels, labels, add)))]
             w  == Write(v, Stmt("UPDATE", {"labels"}, ps), err)
             m2 == [u \in DOMAIN v.m |->
                      IF u \in uids
                      THEN [v.m[u] EXCEPT !.labels = NewLabels(v.m[u].labels, labels, add)]
                      ELSE v.m[u]]
         IN  IF w.out # "ok" THEN Res(v.m, v.tbl, w.out, "UPDATE", "none")
             ELSE Res(m2, w.tbl, "ok", "UPDATE", "none")

addmessageslabels(v, uids, labels, err) == changemessageslabels(v, uids, labels, TRUE, err)

deletemessageslabels(v, uids, labels, err) == changemessageslabels(v, uids, labels, FALSE, err)

MtimeParams(items) ==
    [k \in DOMAIN items |-> Param(items[k][1], StatusRow({}, items[k][2], {}))]

savemessagesmtimebulk(v, items, err) ==
    LET w == Write(v, Stmt("UPDATE", {"mtime"}, MtimeParams(items)), err)
    IN  IF w.out # "ok" THEN Res(v.m, v.tbl, w.out, "UPDATE", "none")
        ELSE LET r == SetEach(v.m, items, "mtime")
             IN  Res(r.m, w.tbl, r.out, "UPDATE", "none")

\* deletemessage with the two statements exchanged: the entry is dropped from
\* messagelist before the DELETE is written.
deletemessageMirrorFirst(v, uid, err) ==
    IF ~uidexists(v.m, uid)
    THEN Res(v.m, v.tbl, "ok", "none", "none")
    ELSE LET w == Write(v, DeleteStmt(<<uid>>), err)
         IN  Res([v.m EXCEPT ![uid] = NoMsg], w.tbl, w.out, "DELETE", "none")

deletemessage(v, uid, err) ==
    IF ~uidexists(v.m, uid)
    THEN Res(v.m, v.tbl, "ok", "none", "none")
    ELSE LET w == Write(v, DeleteStmt(<<uid>>), err)
         IN  IF w.out # "ok" THEN Res(v.m, v.tbl, w.out, "DELETE", "none")
             ELSE Res([v.m EXCEPT ![uid] = NoMsg], w.tbl, "ok", "DELETE", "none")

\* for uid in uidlist: del(self.messagelist[uid]); a uid that occurs twice is
\* gone at its second occurrence (KeyError).
RECURSIVE DelEach(_, _)
DelEach(m, uidlist) ==
    IF uidlist = <<>> THEN [m |-> m, out |-> "ok"]
    ELSE IF ~uidexists(m, Head(uidlist)) THEN [m |-> m, out |-> "KeyError"]
    ELSE DelEach([m EXCEPT ![Head(uidlist)] = NoMsg], Tail(uidlist))

\* [uid for uid in uidlist if uid in self.messagelist]
Weeded(m, uidlist) == SelectSeq(uidlist, LAMBDA u : uidexists(m, u))

deletemessages(v, uidlist, err) ==
    LET ul == Weeded(v.m, uidlist)
    IN  IF ul = <<>> THEN Res(v.m, v.tbl, "ok", "none", "none")
        ELSE LET w == Write(v, DeleteStmt(ul), err)
             IN  IF w.out # "ok" THEN Res(v.m, v.tbl, w.out, "DELETE", "none")
                 ELSE LET r == DelEach(v.m, ul)
                      IN  Res(r.m, w.tbl, r.out, "DELETE", "none")

\* cachemessagelist: the messagelist is dropped, then rebuilt from the rows
\* SELECT id,flags,mtime,labels returns. The SELECT raises on a connection that
\* is not open and on a table without these columns.
cachemessagelist(v) ==
    IF NoConnection(v.c) # "ok"
    THEN Res([u \in DOMAIN v.m |-> NoMsg], v.tbl, NoConnection(v.c), "SELECT", "none")
    ELSE IF v.ver = 0 \/ ~({"mtime", "labels"} \subseteq v.cols)
    THEN Res([u \in DOMAIN v.m |-> NoMsg], v.tbl, "OperationalError", "SELECT", "none")
    ELSE Res([u \in DOMAIN v.m |->
                 IF v.tbl[u].present THEN MsgOfRow(v.tbl[u]) ELSE NoMsg],
             v.tbl, "ok", "SELECT", "none")

(***************************************************************************)
(* Opening and closing: openfiles, __create_db, __upgrade_db, closefiles.  *)
(* db = [ver, cols, tbl] is the file.                                      *)
(***************************************************************************)
Db(ver, cols, tbl) == [ver |-> ver, cols |-> cols, tbl |-> tbl]

\* A column added without DEFAULT: the rows the table has hold NULL in it.
DefaultOfNone(col) == IF col = "mtime" THEN NullInt ELSE NullStr

\* The value pre-existing rows get in a column added with DEFAULT.
DefaultOf(col) == IF col = "mtime" THEN 0 ELSE <<>>

\* ALTER TABLE status ADD <col> ... DEFAULT ...: fails on a column the table
\* already has (duplicate column name).
AddColumn(db, col) ==
    IF col \in db.cols
    THEN [db |-> db, out |-> "OperationalError"]
    ELSE [db |-> Db(db.ver, db.cols \cup {col},
                    [u \in DOMAIN db.tbl |->
                        IF ~db.tbl[u].present THEN db.tbl[u]
                        ELSE IF col = "mtime"
                        THEN [db.tbl[u] EXCEPT !.mtime = DefaultOf(col)]
                        ELSE [db.tbl[u] EXCEPT !.labels = DefaultOf(col)]]),
          out |-> "ok"]

\* UPDATE metadata SET value='2' WHERE key='db_version'
SetVersion(db) == [db |-> Db(2, db.cols, db.tbl), out |-> "ok"]

UpgradeStep(db, k) ==
    CASE k = 1 -> AddColumn(db, "mtime")
      [] k = 2 -> AddColumn(db, "labels")
      [] k = 3 -> SetVersion(db)

\* executescript runs the statements one after the other, each committed on
\* its own, and stops at the first that fails; failAt is the statement at
\* which the store reports an error of its own (4: at none).
RECURSIVE RunUpgrade(_, _, _)
RunUpgrade(db, k, failAt) ==
    IF k > 3 THEN [db |-> db, out |-> "ok"]
    ELSE IF k = failAt THEN [db |-> db, out |-> "OperationalError"]
    ELSE LET r == UpgradeStep(db, k)
         IN  IF r.out # "ok" THEN r ELSE RunUpgrade(r.db, k + 1, failAt)

upgrade_db(db, from_ver, failAt) ==
    IF from_ver <= 1 THEN RunUpgrade(db, 1, failAt) ELSE [db |-> db, out |-> "ok"]

\* CREATE TABLE metadata; INSERT db_version '2'; CREATE TABLE status
create_db(db) == Db(cur_version, {"mtime", "labels"}, [u \in DOMAIN db.tbl |-> NoRow])

\* openfiles of an instance with connection c on file db, the lock counting n
\* users. connFail: sqlite.connect raises OperationalError.
openfiles(c, n, nf, db, connFail, failAt) ==
    IF connFail
    THEN [c |-> c, n |-> n, nf |-> nf, db |-> db, out |-> "UserWarning", did |-> "none"]
    ELSE IF db.ver = 0
    THEN [c |-> "open", n |-> n + 1, nf |-> TRUE, db |-> create_db(db), out |-> "ok",
          did |-> "create"]
    ELSE IF db.ver < cur_version
    THEN LET r == upgrade_db(db, db.ver, failAt)
         IN  [c |-> "open", n |-> n + 1, nf |-> nf, db |-> r.db, out |-> r.out,
              did |-> "upgrade"]
    ELSE [c |-> "open", n |-> n + 1, nf |-> nf, db |-> db, out |-> "ok", did |-> "none"]

\* DatabaseFileLock.shouldClose
shouldClose(n) == n < 1

\* closefiles: removeOneUser, then close the instance's own connection if the
\* counter says so (close() of None raises and the bare except swallows it).
closefiles(c, n) ==
    [n |-> n - 1,
     c |-> IF shouldClose(n - 1) /\ c = "open" THEN "closed" ELSE c]

(***************************************************************************)
(* The state machine of the cache: instances on one file, one thread per   *)
(* instance, one call at a time.                                           *)
(***************************************************************************)
View(i) == [c |-> conn[i], ver |-> dbver, cols |-> dbcols, m |-> mirror[i], tbl |-> rows]

\* Rows a file holds before the program starts.
InitFlags(u) == IF u = 1 THEN {"S"} ELSE FlagPool

InitTables ==
    {[u \in Uids |-> IF u \in S THEN StatusRow(InitFlags(u), 0, {}) ELSE NoRow] :
        S \in SUBSET (1..MaxUid)}

\* A version 1 file has neither mtime nor labels.
V1Table(tbl) ==
    [u \in DOMAIN tbl |->
        IF tbl[u].present THEN [tbl[u] EXCEPT !.mtime = NullInt, !.labels = NullStr]
        ELSE tbl[u]]

InitDbs ==
    {Db(0, {}, NoRows)}
    \cup {Db(1, {}, V1Table(t)) : t \in InitTables}
    \cup {Db(2, {"mtime", "labels"}, t) : t \in InitTables}

Init ==
    /\ \E db \in InitDbs : dbver = db.ver /\ dbcols = db.cols /\ rows = db.tbl
    /\ users = 0
    /\ conn = [i \in Insts |-> "none"]
    /\ mirror = [i \in Insts |-> NoMsgs]
    /\ newfolder = [i \in Insts |-> FALSE]
    /\ life = [i \in Insts |-> "new"]
    /\ hung = {}
    /\ last = NoCall
    /\ nops = 0
    /\ rt = RtOff
    /\ bk = BkOff
    /\ tx = TxOff
    /\ ct = CtOff
    /\ wx = WxOff
    /\ ConcIdle

\* The callers open an instance that is not open and close one that is
\* (life); nothing else orders the calls.
Called(op, i, out, stmt, cause, uids) ==
    [op |-> op, inst |-> i, out |-> out, stmt |-> stmt, cause |-> cause, uids |-> uids]

\* A thread that waits for the file lock while saveall holds it never gets it.
CanRun(i, limit, needsLock) ==
    /\ nops < limit
    /\ i \notin hung
    /\ needsLock => hung = {}

OpenFiles(i) ==
    \E connFail \in BOOLEAN, failAt \in 1..4 :
        LET r == openfiles(conn[i], users, newfolder[i], Db(dbver, dbcols, rows),
                           connFail, failAt)
        IN  /\ CanRun(i, MaxOps, TRUE)
            /\ life[i] # "open"
            /\ conn' = [conn EXCEPT ![i] = r.c]
            /\ users' = r.n
            /\ newfolder' = [newfolder EXCEPT ![i] = r.nf]
            /\ dbver' = r.db.ver
            /\ dbcols' = r.db.cols
            /\ rows' = r.db.tbl
            /\ life' = [life EXCEPT ![i] = IF r.out = "ok" THEN "open" ELSE @]
            /\ last' = Called("openfiles", i, r.out, r.did, "none", {})
            /\ nops' = nops + 1
            /\ UNCHANGED <<mirror, hung, otherVars>>

CloseFiles(i) ==
    LET r == closefiles(conn[i], users)
    IN  /\ CanRun(i, MaxOps, TRUE)
        /\ life[i] = "open"
        /\ conn' = [conn EXCEPT ![i] = r.c]
        /\ users' = r.n
        /\ life' = [life EXCEPT ![i] = IF @ = "open" THEN "closed" ELSE @]
        /\ last' = Called("closefiles", i, "ok", "none", "none", {})
        /\ nops' = nops + 1
        /\ UNCHANGED <<dbver, dbcols, rows, mirror, newfolder, hung, otherVars>>

\* A call of a handler that left r; uids are the uids the call names.
Call(i, limit, op, uids, r) ==
    /\ CanRun(i, limit, r.stmt \notin {"none", "SELECT"})
    /\ mirror' = [mirror EXCEPT ![i] = r.m]
    /\ rows' = r.tbl
    /\ last' = Called(op, i, r.out, r.stmt, r.cause, uids)
    /\ nops' = nops + 1
    /\ UNCHANGED <<dbver, dbcols, users, conn, newfolder, life, hung, otherVars>>

LoadCache(i) ==
    Call(i, MaxOps, "cachemessagelist", {}, cachemessagelist(View(i)))

Next ==
    \E i \in Insts :
        \/ OpenFiles(i)
        \/ CloseFiles(i)
        \/ LoadCache(i)

Spec == Init /\ [][Next]_vars

(***************************************************************************)
(* The calls that read and change messages, on instances that are open.    *)
(***************************************************************************)
FlagArgs == {{}, {"S"}, {"T", "S"}}
LabelArgs == {{}, {<<"b">>}, {<<"b">>, <<"a">>}}
MtimeArgs == Mtimes \cup {NullInt}
\* The messages savemessage is called with.
MsgArgs == {Msg({}, 0, {}), Msg({"S"}, MaxMtime, {<<"b">>}),
            Msg({"T", "S"}, 0, {<<"b">>, <<"a">>})}

\* Sequences of at most n elements of S.
SeqsUpTo(S, n) == UNION {[1..k -> S] : k \in 0..n}

\* dict.items(): the keys are distinct.
Items(S, n) ==
    {q \in SeqsUpTo(Uids \X S, n) :
        \A j, k \in DOMAIN q : j # k => q[j][1] # q[k][1]}

Keys(items) == {items[k][1] : k \in DOMAIN items}

\* The messagelist cachemessagelist builds from a table.
Loaded(tbl) == [u \in DOMAIN tbl |-> IF tbl[u].present THEN MsgOfRow(tbl[u]) ELSE NoMsg]

\* Every instance has opened the file, and has or has not yet loaded it.
OpsInit ==
    /\ dbver = cur_version
    /\ dbcols = {"mtime", "labels"}
    /\ rows \in InitTables
    /\ users = Cardinality(Insts)
    /\ conn = [i \in Insts |-> "open"]
    /\ mirror \in [Insts -> {NoMsgs, Loaded(rows)}]
    /\ newfolder = [i \in Insts |-> FALSE]
    /\ life = [i \in Insts |-> "open"]
    /\ hung = {}
    /\ last = NoCall
    /\ nops = 0
    /\ rt = RtOff
    /\ bk = BkOff
    /\ tx = TxOff
    /\ ct = CtOff
    /\ wx = WxOff
    /\ ConcIdle

CacheMessageList(i) ==
    Call(i, MaxCalls, "cachemessagelist", {}, cachemessagelist(View(i)))

SaveMessage(i) ==
    \E uid \in UidArgs, a \in MsgArgs, err \in BOOLEAN :
        Call(i, MaxCalls, "savemessage", {uid},
             savemessage(View(i), uid, a.flags, a.mtime, a.labels, err))

SaveMessageFlags(i) ==
    \E uid \in Uids, f \in FlagArgs, err \in BOOLEAN :
        Call(i, MaxCalls, "savemessageflags", {uid}, savemessageflags(View(i), uid, f, err))

SaveMessageLabels(i) ==
    \E uid \in Uids, l \in LabelArgs, mt \in MtimeArgs, err \in BOOLEAN :
        Call(i, MaxCalls, "savemessagelabels", {uid},
             savemessagelabels(View(i), uid, l, mt, err))

SaveMessagesLabelsBulk(i) ==
    \E items \in Items(LabelArgs, MaxDict), err \in BOOLEAN :
        Call(i, MaxCalls, "savemessageslabelsbulk", Keys(items),
             savemessageslabelsbulk(View(i), items, err))

AddMessagesLabels(i) ==
    \E uids \in SUBSET Uids, l \in LabelArgs, err \in BOOLEAN :
        Call(i, MaxCalls, "addmessageslabels", uids,
             addmessageslabels(View(i), uids, l, err))

DeleteMessagesLabels(i) ==
    \E uids \in SUBSET Uids, l \in LabelArgs, err \in BOOLEAN :
        Call(i, MaxCalls, "deletemessageslabels", uids,
             deletemessageslabels(View(i), uids, l, err))

SaveMessagesMtimeBulk(i) ==
    \E items \in Items(Mtimes, MaxDict), err \in BOOLEAN :
        Call(i, MaxCalls, "savemessagesmtimebulk", Keys(items),
             savemessagesmtimebulk(View(i), items, err))

DeleteMessage(i) ==
    \E uid \in Uids, err \in BOOLEAN :
        Call(i, MaxCalls, "deletemessage", {uid}, deletemessage(View(i), uid, err))

DeleteMessages(i) ==
    \E uidlist \in SeqsUpTo(Uids, MaxList), err \in BOOLEAN :
        Call(i, MaxCalls, "deletemessages", Range(uidlist),
             deletemessages(View(i), uidlist, err))

\* saveall takes the file lock and, holding it, calls __sql_write, which
\* waits for the same lock: the thread never returns and the lock stays taken.
SaveAll(i) ==
    /\ nops < MaxCalls
    /\ i \notin hung
    /\ hung' = hung \cup {i}
    /\ last' = Called("saveall", i, "blocked", "none", "none", {})
    /\ nops' = nops + 1
    /\ UNCHANGED <<dbver, dbcols, rows, users, conn, mirror, newfolder, life, otherVars>>

OpsNext ==
    \E i \in Insts :
        \/ CacheMessageList(i)
        \/ SaveMessage(i)
        \/ SaveMessageFlags(i)
        \/ SaveMessageLabels(i)
        \/ SaveMessagesLabelsBulk(i)
        \/ AddMessagesLabels(i)
        \/ DeleteMessagesLabels(i)
        \/ SaveMessagesMtimeBulk(i)
        \/ DeleteMessage(i)
        \/ DeleteMessages(i)
        \/ SaveAll(i)

SpecOps == OpsInit /\ [][OpsNext]_vars

(***************************************************************************)
(* Properties of opening and closing, checked under Spec.                  *)
(***************************************************************************)
\* C1: once the last open instance on the file has closed (no instance is
\* open and the lock counts no user), no instance that was opened and closed
\* still has an open connection to the file.
C1_LastCloseLeavesNoHandle ==
    ((\A i \in Insts : life[i] # "open") /\ users < 1)
        => \A i \in Insts : life[i] = "closed" => conn[i] # "open"

\* C10: openfiles on a version 1 file (table status without mtime and labels,
\* db_version 1) that returns leaves both columns, db_version 2, and every row
\* it found with its id and flags, mtime 0 and labels ''.
C10_UpgradeFromV1 ==
    [][(last'.op = "openfiles" /\ last'.out = "ok" /\ dbver = 1 /\ dbcols = {})
        => /\ dbver' = 2
           /\ dbcols' = {"mtime", "labels"}
           /\ \A u \in Uids :
                IF rows[u].present
                THEN rows'[u] = [present |-> TRUE, flags |-> rows[u].flags,
                                 mtime |-> 0, labels |-> <<>>]
                ELSE ~rows'[u].present]_vars

\* An upgrade of a file with rows has returned.
C10_Witness ==
    /\ last.op = "openfiles" /\ last.stmt = "upgrade" /\ last.out = "ok"
    /\ \E u \in Uids : rows[u].present /\ rows[u].flags # <<>>

(***************************************************************************)
(* Properties of the calls on messages, checked under SpecOps.             *)
(***************************************************************************)
\* C4: savemessage with a uid <= 0 issues no statement and returns, and no
\* record with a uid <= 0 is in a messagelist or in table status.
C4_NonPositiveUidNeverSaved ==
    /\ (last.op = "savemessage" /\ \E u \in last.uids : u <= 0)
          => last.stmt = "none" /\ last.out = "ok"
    /\ \A u \in Uids : u <= 0 =>
          ~rows[u].present /\ \A i \in Insts : ~mirror[i][u].present

\* The calls that change messages.
Mutators ==
    {"savemessage", "savemessageflags", "savemessagelabels", "savemessageslabelsbulk",
     "addmessageslabels", "deletemessageslabels", "savemessagesmtimebulk",
     "deletemessage", "deletemessages", "saveall"}

\* The messagelist and the table hold the same message for a uid, or neither
\* holds one.
Agree(m, r) == IF m.present /\ r.present THEN m = MsgOfRow(r) ELSE m.present = r.present

\* C5: after a call that changes messages has returned, the instance's
\* messagelist and table status agree on every uid the call named and changed
\* in the messagelist or in the table.
C5_MirrorAgreesWithStore ==
    [][(last'.op \in Mutators /\ last'.out = "ok")
        => \A u \in last'.uids \cap Uids :
              (mirror'[last'.inst][u] # mirror[last'.inst][u] \/ rows'[u] # rows[u])
                  => Agree(mirror'[last'.inst][u], rows'[u])]_vars

\* C6: savemessage for a uid that has a record (a row in table status or an
\* entry of the messagelist) issues UPDATE, never INSERT, and does not end
\* with a duplicate key error.
C6_DuplicateBecomesUpdate ==
    [][(last'.op = "savemessage"
        /\ \E u \in last'.uids \cap Uids :
              rows[u].present \/ mirror[last'.inst][u].present)
        => last'.stmt = "UPDATE" /\ last'.cause # "IntegrityError"]_vars

\* C7: deletemessages(uidlist) and deletemessage(uid), when the store did not
\* refuse the statement, return without an exception, remove from the
\* messagelist and from table status the uids named that were in the
\* messagelist, and leave every other uid as it was in both.
C7_DeleteRemovesExactlyPresent ==
    [][(last'.op \in {"deletemessage", "deletemessages"}
        /\ last'.out \in {"ok", "KeyError"})
        => /\ last'.out = "ok"
           /\ \A u \in Uids :
                 IF u \in last'.uids /\ mirror[last'.inst][u].present
                 THEN ~mirror'[last'.inst][u].present /\ ~rows'[u].present
                 ELSE mirror'[last'.inst][u] = mirror[last'.inst][u]
                      /\ rows'[u] = rows[u]]_vars


(***************************************************************************)
(* Round trip of one record: serialise, persist, reload.                   *)
(***************************************************************************)
RTInit ==
    /\ rt \in {[RtOff EXCEPT !.pc = "input", !.flags = f, !.labels = l] :
                  f \in SUBSET FlagPool, l \in SUBSET LabelPoolRT}
    /\ dbver = cur_version
    /\ dbcols = {"mtime", "labels"}
    /\ rows = NoRows
    /\ users = 0
    /\ conn = [i \in Insts |-> "none"]
    /\ mirror = [i \in Insts |-> NoMsgs]
    /\ newfolder = [i \in Insts |-> FALSE]
    /\ life = [i \in Insts |-> "new"]
    /\ hung = {}
    /\ last = NoCall
    /\ nops = 0
    /\ bk = BkOff
    /\ tx = TxOff
    /\ ct = CtOff
    /\ wx = WxOff
    /\ ConcIdle

RTSave ==
    /\ rt.pc = "input"
    /\ rt' = [rt EXCEPT !.pc = "stored", !.row = StatusRow(rt.flags, 0, rt.labels)]
    /\ UNCHANGED <<facadeVars, bk, tx, ct, wx, concVars>>

RTLoad ==
    /\ rt.pc = "stored"
    /\ rt' = [rt EXCEPT !.pc = "loaded", !.out = MsgOfRow(rt.row)]
    /\ UNCHANGED <<facadeVars, bk, tx, ct, wx, concVars>>

RTNext == RTSave \/ RTLoad

SpecRT == RTInit /\ [][RTNext]_vars

\* C9: for any set of flags and any set of labels, the sets reconstructed by
\* cachemessagelist from the row savemessage wrote equal the original sets.
C9_RoundTrip ==
    rt.pc = "loaded" => rt.out.flags = rt.flags /\ rt.out.labels = rt.labels

(***************************************************************************)
(* One dict of labels saved by savemessageslabelsbulk, and saved by one    *)
(* savemessagelabels per uid in every order of the uids, from the same     *)
(* messagelist and table.                                                  *)
(***************************************************************************)
BulkLabelArgs == {{}, {<<"a">>}, {<<"b">>, <<"a">>}, {<<"a", ",", "b">>}}

\* Tables whose rows hold labels.
BulkTables ==
    {[u \in Uids |-> IF u \in S THEN StatusRow(InitFlags(u), 0, {<<"b">>}) ELSE NoRow] :
        S \in SUBSET (1..MaxUid)}

\* The orders in which the items of a dict can be taken.
Orders(items) ==
    {[k \in DOMAIN items |-> items[f[k]]] :
        f \in {g \in [DOMAIN items -> DOMAIN items] :
                  \A j, k \in DOMAIN items : j # k => g[j] # g[k]}}

\* savemessagelabels(uid, labels) for each item of the sequence, one call
\* after the other, as long as the calls return.
RECURSIVE SaveLabelsEach(_, _, _)
SaveLabelsEach(m, tbl, items) ==
    IF items = <<>> THEN [m |-> m, tbl |-> tbl, out |-> "ok"]
    ELSE LET v == [c |-> "open", ver |-> cur_version, cols |-> {"mtime", "labels"},
                   m |-> m, tbl |-> tbl]
             r == savemessagelabels(v, Head(items)[1], Head(items)[2], NullInt, FALSE)
         IN  IF r.out # "ok" THEN [m |-> r.m, tbl |-> r.tbl, out |-> r.out]
             ELSE SaveLabelsEach(r.m, r.tbl, Tail(items))

BulkInit ==
    /\ bk \in {[BkOff EXCEPT !.pc = "input", !.m = Loaded(t), !.tbl = t, !.items = q] :
                  t \in BulkTables,
                  q \in {x \in Items(BulkLabelArgs, MaxDict) :
                            \A u \in Keys(x) : u \in 1..MaxUid}}
    /\ \A u \in Keys(bk.items) : bk.m[u].present
    /\ dbver = cur_version
    /\ dbcols = {"mtime", "labels"}
    /\ rows = NoRows
    /\ users = 0
    /\ conn = [i \in Insts |-> "none"]
    /\ mirror = [i \in Insts |-> NoMsgs]
    /\ newfolder = [i \in Insts |-> FALSE]
    /\ life = [i \in Insts |-> "new"]
    /\ hung = {}
    /\ last = NoCall
    /\ nops = 0
    /\ rt = RtOff
    /\ tx = TxOff
    /\ ct = CtOff
    /\ wx = WxOff
    /\ ConcIdle

BulkSave ==
    /\ bk.pc = "input"
    /\ LET v == [c |-> "open", ver |-> cur_version, cols |-> {"mtime", "labels"},
                 m |-> bk.m, tbl |-> bk.tbl]
           r == savemessageslabelsbulk(v, bk.items, FALSE)
       IN  bk' = [bk EXCEPT !.pc = "bulk",
                            !.bulk = [m |-> r.m, tbl |-> r.tbl, out |-> r.out]]
    /\ UNCHANGED <<facadeVars, rt, tx, ct, wx, concVars>>

EachSave ==
    /\ bk.pc = "bulk"
    /\ bk' = [bk EXCEPT !.pc = "done",
                        !.each = {SaveLabelsEach(bk.m, bk.tbl, o) : o \in Orders(bk.items)}]
    /\ UNCHANGED <<facadeVars, rt, tx, ct, wx, concVars>>

BulkNext == BulkSave \/ EachSave

SpecBulk == BulkInit /\ [][BulkNext]_vars

StmtKinds == {"INSERT", "UPDATE", "DELETE"}

\* The statement writer t issues, as savemessage, savemessageflags and
\* deletemessage build it; t is the uid.
JobStmt(t, kind) ==
    CASE kind = "INSERT" -> InsertStmt(t, {"S"}, 0, {<<"a">>})
      [] kind = "UPDATE" -> FlagsStmt(t, {"T"})
      [] kind = "DELETE" -> DeleteStmt(<<t>>)

\* The table before the calls: a uid has a row unless its writer inserts it.
ConcTable(jobs) ==
    [u \in Uids |->
        IF u \in Writers /\ jobs[u].kind # "INSERT"
        THEN StatusRow(InitFlags(u), 0, {})
        ELSE NoRow]

\* The row of uid t once writer t's statement is applied to the table.
After(jobs, t) ==
    ExecParams(ConcTable(jobs), JobStmt(t, jobs[t].kind).kind,
               JobStmt(t, jobs[t].kind).cols, JobStmt(t, jobs[t].kind).params).tbl[t]

ConcInit ==
    /\ job \in [Writers -> [kind : StmtKinds, scoped : BOOLEAN]]
    /\ pc = [t \in Writers |-> "begin"]
    /\ pylock = 0
    /\ pending = [t \in Writers |-> NoTxn]
    /\ intx = [t \in Writers |-> 0]
    /\ reading = FALSE
    /\ reads = 0
    /\ locked = {}
    /\ dbver = cur_version
    /\ dbcols = {"mtime", "labels"}
    /\ rows = ConcTable(job)
    /\ users = 0
    /\ conn = [i \in Insts |-> "none"]
    /\ mirror = [i \in Insts |-> NoMsgs]
    /\ newfolder = [i \in Insts |-> FALSE]
    /\ life = [i \in Insts |-> "new"]
    /\ hung = {}
    /\ last = NoCall
    /\ nops = 0
    /\ rt = RtOff
    /\ bk = BkOff
    /\ tx = TxOff
    /\ ct = CtOff
    /\ wx = WxOff

concRest ==
    <<dbver, dbcols, users, conn, mirror, newfolder, life, hung, last, nops, rt, bk, tx, ct, wx>>

\* __enter__: a writer whose call is inside a `with folder:` block.
Enter(t) ==
    /\ pc[t] = "begin"
    /\ intx' = [intx EXCEPT ![t] = IF job[t].scoped THEN @ + 1 ELSE @]
    /\ pc' = [pc EXCEPT ![t] = "lock"]
    /\ UNCHANGED <<rows, job, pylock, pending, reading, reads, locked, concRest>>

\* with self._databaseFileLock.getLock(): the lock is taken when it is free.
Acquire(t) ==
    /\ pc[t] = "lock"
    /\ pylock = 0
    /\ pylock' = t
    /\ pc' = [pc EXCEPT ![t] = "exec"]
    /\ UNCHANGED <<rows, job, pending, intx, reading, reads, locked, concRest>>

\* self.connection.execute(sql, args); success = True. The store refuses the
\* statement while another connection has a transaction open ('database is
\* locked'); otherwise the statement runs in the connection's transaction,
\* which it opens if there is none. An exception leaves the with block and
\* so releases the lock.
Execute(t) ==
    /\ pc[t] = "exec"
    /\ IF \E s \in Writers \ {t} : pending[s].active
       THEN LET h == OnOperationalError(FALSE, "database is locked")
            IN  /\ pc' = [pc EXCEPT ![t] = IF h.raise THEN "failed"
                                           ELSE IF h.success THEN "returned"
                                           ELSE "lock"]
                /\ locked' = locked \cup {t}
                /\ UNCHANGED pending
       ELSE LET st == JobStmt(t, job[t].kind)
                r  == ExecParams(IF pending[t].active THEN pending[t].tbl ELSE rows,
                                 st.kind, st.cols, st.params)
            IN  /\ IF r.out # "ok"
                   THEN /\ pc' = [pc EXCEPT ![t] = "failed"]
                        /\ UNCHANGED pending
                   ELSE /\ pc' = [pc EXCEPT ![t] = IF intx[t] > 0 THEN "returned"
                                                   ELSE "commit"]
                        /\ pending' = [pending EXCEPT
                                          ![t] = [active |-> TRUE, tbl |-> r.tbl,
                                                  excl |-> @.excl]]
                /\ UNCHANGED locked
    /\ pylock' = IF pc'[t] = "commit" THEN pylock ELSE 0
    /\ UNCHANGED <<rows, job, intx, reading, reads, concRest>>

\* self.connection.commit() in __sql_write, the lock held. The store refuses
\* the commit while another connection reads ('database is locked'); the
\* transaction stays open.
Commit(t) ==
    /\ pc[t] = "commit"
    /\ pylock' = 0
    /\ IF reading
       THEN LET h == OnOperationalError(TRUE, "database is locked")
            IN  /\ pc' = [pc EXCEPT ![t] = IF h.raise THEN "failed"
                                           ELSE IF h.success THEN "returned"
                                           ELSE "lock"]
                /\ pending' = [pending EXCEPT ![t].excl = TRUE]
                /\ locked' = locked \cup {t}
                /\ UNCHANGED rows
       ELSE /\ rows' = pending[t].tbl
            /\ pending' = [pending EXCEPT ![t] = NoTxn]
            /\ pc' = [pc EXCEPT ![t] = "returned"]
            /\ UNCHANGED locked
    /\ UNCHANGED <<job, intx, reading, reads, concRest>>

\* __sql_write has returned; __exit__ if the call is inside a block:
\* _in_transactions -= 1 and, at zero, connection.commit(), the lock not held
\* and the error, if any, not caught.
Exit(t) ==
    /\ pc[t] = "returned"
    /\ IF intx[t] = 0
       THEN /\ pc' = [pc EXCEPT ![t] = "done"]
            /\ UNCHANGED <<rows, pending, intx, locked>>
       ELSE /\ intx' = [intx EXCEPT ![t] = @ - 1]
            /\ IF intx[t] - 1 >= 1
               THEN /\ pc' = [pc EXCEPT ![t] = "done"]
                    /\ UNCHANGED <<rows, pending, locked>>
               ELSE IF pending[t].active /\ reading
               THEN /\ pc' = [pc EXCEPT ![t] = "failed"]
                    /\ pending' = [pending EXCEPT ![t].excl = TRUE]
                    /\ locked' = locked \cup {t}
                    /\ UNCHANGED rows
               ELSE /\ rows' = IF pending[t].active THEN pending[t].tbl ELSE rows
                    /\ pending' = [pending EXCEPT ![t] = NoTxn]
                    /\ pc' = [pc EXCEPT ![t] = "done"]
                    /\ UNCHANGED locked
    /\ UNCHANGED <<job, pylock, reading, reads, concRest>>

\* Another connection executes SELECT ... from status and steps through the
\* rows, as cachemessagelist does without the lock; it cannot start while a
\* connection waits to commit.
ReadBegin ==
    /\ ~reading
    /\ reads < MaxReads
    /\ \A t \in Writers : ~pending[t].excl
    /\ reading' = TRUE
    /\ reads' = reads + 1
    /\ UNCHANGED <<rows, pc, job, pylock, pending, intx, locked, concRest>>

ReadEnd ==
    /\ reading
    /\ reading' = FALSE
    /\ UNCHANGED <<rows, pc, job, pylock, pending, intx, reads, locked, concRest>>

ConcNext ==
    \/ \E t \in Writers :
          \/ Enter(t)
          \/ Acquire(t)
          \/ Execute(t)
          \/ Commit(t)
          \/ Exit(t)
    \/ ReadBegin
    \/ ReadEnd

SpecConc == ConcInit /\ [][ConcNext]_vars

\* Every thread that can take a step takes one, a thread that waits for the
\* lock gets it when it is free again and again, and a reader ends.
FairSpecConc ==
    /\ SpecConc
    /\ \A t \in Writers :
          /\ WF_vars(Enter(t))
          /\ SF_vars(Acquire(t))
          /\ WF_vars(Execute(t))
          /\ WF_vars(Commit(t))
          /\ WF_vars(Exit(t))
    /\ WF_vars(ReadEnd)

\* C2: when the writers make their calls outside any `with folder:` block,
\* every writer's call eventually returns without an exception.
C2_EveryWriterReturns ==
    (\A t \in Writers : ~job[t].scoped) => <>(\A t \in Writers : pc[t] = "done")

\* C3: once every call has ended, the row of every writer whose call
\* returned is the row its statement leaves, the row of a writer whose call
\* raised is as it was, and when all calls returned the table is the table
\* before the calls with every statement applied.
C3_NoLostWrite ==
    (\A t \in Writers : pc[t] \in {"done", "failed"})
        => /\ \A t \in Writers :
                rows[t] = IF pc[t] = "done" THEN After(job, t) ELSE ConcTable(job)[t]
           /\ \A u \in Uids \ Writers : rows[u] = ConcTable(job)[u]

\* All calls have returned, one of them an INSERT, one of them after it had
\* met 'database is locked', and the table has changed.
C3_Witness ==
    /\ \A t \in Writers : pc[t] = "done"
    /\ locked # {}
    /\ \E t \in Writers : job[t].kind = "INSERT"
    /\ \E s, t \in Writers : job[s].kind # job[t].kind
    /\ rows # ConcTable(job)

(***************************************************************************)
(* Transaction scopes of one instance: __enter__, __exit__ and the commit  *)
(* of __sql_write, called by one thread in any order. x is the instance:   *)
(* fsync is what dofsync() returns, conn its connection, depth its         *)
(* _in_transactions. Each yields the counter it leaves, whether it has     *)
(* called connection.commit(), and how it ended.                           *)
(***************************************************************************)
Scoped(depth, commit, out) == [depth |-> depth, commit |-> commit, out |-> out]

\* The instances a thread may hold: no other thread uses them.
FacadeIdle ==
    /\ dbver = cur_version
    /\ dbcols = {"mtime", "labels"}
    /\ rows = NoRows
    /\ users = 0
    /\ conn = [i \in Insts |-> "none"]
    /\ mirror = [i \in Insts |-> NoMsgs]
    /\ newfolder = [i \in Insts |-> FALSE]
    /\ life = [i \in Insts |-> "new"]
    /\ hung = {}
    /\ last = NoCall
    /\ nops = 0

scope_enter(x) ==
    IF x.fsync THEN Scoped(x.depth, FALSE, "ok")
    ELSE IF x.conn = "none" THEN Scoped(x.depth, FALSE, "AssertionError")
    ELSE Scoped(x.depth + 1, FALSE, "ok")

\* __exit__ that commits whenever it is called.
scope_exit_always(x) ==
    IF x.fsync THEN Scoped(x.depth, FALSE, "ok")
    ELSE IF ~(x.depth > 0) THEN Scoped(x.depth, FALSE, "AssertionError")
    ELSE Scoped(x.depth - 1, TRUE, "ok")

\* __exit__ without its assertion.
scope_exit_unchecked(x) ==
    IF x.fsync THEN Scoped(x.depth, FALSE, "ok")
    ELSE Scoped(x.depth - 1, x.depth - 1 < 1, "ok")

scope_exit(x) ==
    IF x.fsync THEN Scoped(x.depth, FALSE, "ok")
    ELSE IF ~(x.depth > 0) THEN Scoped(x.depth, FALSE, "AssertionError")
    ELSE Scoped(x.depth - 1, x.depth - 1 < 1, "ok")

\* __sql_write on a store that raises nothing: the statement is executed, and
\* committed `if not self._in_transactions`.
scope_write(x) ==
    IF NoConnection(x.conn) # "ok" THEN Scoped(x.depth, FALSE, NoConnection(x.conn))
    ELSE Scoped(x.depth, x.depth = 0, "ok")

TxInit ==
    /\ tx \in {[pc |-> "run", fsync |-> f, conn |-> c, depth |-> 0, peak |-> 0,
                commits |-> 0, dirty |-> 0, ev |-> "init", out |-> "ok", n |-> 0] :
                  f \in BOOLEAN, c \in {"none", "open"}}
    /\ FacadeIdle
    /\ rt = RtOff
    /\ bk = BkOff
    /\ ct = CtOff
    /\ wx = WxOff
    /\ ConcIdle

\* The scope state after a call that left r; wrote tells whether the call
\* executed a statement.
TxStep(ev, r, wrote) ==
    /\ tx.pc = "run"
    /\ tx.n < MaxSteps
    /\ tx' = [tx EXCEPT
                 !.depth = r.depth,
                 !.peak = IF r.depth = 0 THEN @
                          ELSE IF tx.depth = 0 THEN r.depth
                          ELSE IF r.depth > @ THEN r.depth ELSE @,
                 !.commits = IF r.commit THEN @ + 1 ELSE @,
                 !.dirty = IF r.commit THEN 0
                           ELSE IF wrote /\ r.out = "ok" THEN @ + 1 ELSE @,
                 !.ev = ev,
                 !.out = r.out,
                 !.n = @ + 1]
    /\ UNCHANGED <<facadeVars, rt, bk, ct, wx, concVars>>

TxEnter == tx.depth < MaxDepth /\ TxStep("enter", scope_enter(tx), FALSE)

TxExit == TxStep("exit", scope_exit(tx), FALSE)

TxWrite == TxStep("write", scope_write(tx), TRUE)

TxNext == TxEnter \/ TxExit \/ TxWrite

SpecTxn == TxInit /\ [][TxNext]_vars

\* C11: with dofsync() false, a write inside a scope issues no commit, a write
\* outside any scope issues one, __enter__ issues none, and __exit__ issues
\* one exactly when it brings the counter to zero, which leaves nothing
\* uncommitted.
C11_OneCommitPerOutermostScope ==
    [][(tx.pc = "run" /\ ~tx.fsync /\ tx'.out = "ok")
        => /\ (tx'.ev = "write" /\ tx.depth > 0)
                 => tx'.commits = tx.commits /\ tx'.dirty = tx.dirty + 1
           /\ (tx'.ev = "write" /\ tx.depth = 0)
                 => tx'.commits = tx.commits + 1 /\ tx'.dirty = 0
           /\ tx'.ev = "enter" => tx'.commits = tx.commits /\ tx'.dirty = tx.dirty
           /\ (tx'.ev = "exit" /\ tx.depth > 1)
                 => tx'.commits = tx.commits /\ tx'.dirty = tx.dirty
           /\ (tx'.ev = "exit" /\ tx.depth = 1)
                 => tx'.commits = tx.commits + 1 /\ tx'.dirty = 0]_vars

\* Two nested scopes with a write inside have closed with one commit.
C11_Witness ==
    /\ tx.pc = "run" /\ ~tx.fsync
    /\ tx.ev = "exit" /\ tx.out = "ok"
    /\ tx.depth = 0 /\ tx.peak = 2
    /\ tx.n = 5 /\ tx.commits = 1 /\ tx.dirty = 0

\* C18: with dofsync() false, _in_transactions is never negative, and an
\* __exit__ at zero ends with AssertionError, issues no commit and leaves the
\* counter as it was.
C18_CounterNeverNegative ==
    [][(tx.pc = "run" /\ ~tx.fsync)
        => /\ tx'.depth >= 0
           /\ (tx'.ev = "exit" /\ tx.depth = 0)
                 => /\ tx'.out = "AssertionError"
                    /\ tx'.depth = tx.depth
                    /\ tx'.commits = tx.commits
                    /\ tx'.dirty = tx.dirty]_vars

\* An __exit__ without a matching __enter__ has been refused after a write
\* inside a scope that was closed.
C18_Witness ==
    /\ tx.pc = "run" /\ ~tx.fsync
    /\ tx.ev = "exit" /\ tx.out = "AssertionError"
    /\ tx.depth = 0 /\ tx.commits > 0 /\ tx.peak > 0

(***************************************************************************)
(* saveall step by step, among the writer threads: it takes the file lock, *)
(* builds its rows and, the lock still held, calls __sql_write, whose      *)
(* first step is to take the same lock (a threading.Lock, which the thread *)
(* that holds it cannot take again).                                       *)
(***************************************************************************)
SaveAllInit ==
    /\ job \in [Writers -> [kind : StmtKinds \cup {"SAVEALL"}, scoped : {FALSE}]]
    /\ pc = [t \in Writers |-> IF job[t].kind = "SAVEALL" THEN "saveall" ELSE "begin"]
    /\ pylock = 0
    /\ pending = [t \in Writers |-> NoTxn]
    /\ intx = [t \in Writers |-> 0]
    /\ reading = FALSE
    /\ reads = 0
    /\ locked = {}
    /\ FacadeIdle
    /\ rt = RtOff
    /\ bk = BkOff
    /\ tx = TxOff
    /\ ct = CtOff
    /\ wx = WxOff

\* with self._databaseFileLock.getLock(): in saveall; data is built and
\* __sql_write is called inside the block.
SaveAllLock(t) ==
    /\ pc[t] = "saveall"
    /\ pylock = 0
    /\ pylock' = t
    /\ pc' = [pc EXCEPT ![t] = "lock"]
    /\ UNCHANGED <<rows, job, pending, intx, reading, reads, locked, concRest>>

SaveAllNext ==
    \/ ConcNext
    \/ \E t \in Writers : SaveAllLock(t)

SpecSaveAll == SaveAllInit /\ [][SaveAllNext]_vars

FairSpecSaveAll ==
    /\ SpecSaveAll
    /\ \A t \in Writers :
          /\ SF_vars(SaveAllLock(t))
          /\ WF_vars(Enter(t))
          /\ SF_vars(Acquire(t))
          /\ WF_vars(Execute(t))
          /\ WF_vars(Commit(t))
          /\ WF_vars(Exit(t))
    /\ WF_vars(ReadEnd)

\* C12: a saveall that a thread has called eventually returns.
C12_SaveAllReturns ==
    \A t \in Writers : (pc[t] = "saveall") ~> (pc[t] = "done")

(***************************************************************************)
(* Claims about opening and closing, under Spec.                           *)
(***************************************************************************)
\* C15: in every reachable state of the file, db_version is 2 if and only if
\* the status table has both the mtime and the labels column.
C15_VersionAgreesWithSchema ==
    dbver = cur_version <=> dbcols = {"mtime", "labels"}

\* C17: after an openfiles that succeeded, isnewfolder() is true if and only
\* if that call created the schema.
C17_NewIffCreated ==
    [][\A i \in Insts :
          (nops' # nops /\ last'.op = "openfiles" /\ last'.inst = i /\ last'.out = "ok")
              => (newfolder'[i] <=> last'.stmt = "create")]_vars

\* C19: the lock's counter equals the number of instances that have opened
\* the file successfully and not yet closed it.
C19_CounterCountsOpenInstances ==
    users = Cardinality({i \in Insts : life[i] = "open"})

(***************************************************************************)
(* Claims about the file lock and the retry, under SpecConc.               *)
(***************************************************************************)
\* C14: a thread whose connection executes a statement or issues a commit
\* (which opens, closes or marks its transaction) holds the file lock.
C14_MutationUnderLock ==
    [][\A t \in Writers : pending'[t] # pending[t] => pylock = t]_vars

\* C20: a call outside any `with folder:` block that has met 'database is
\* locked' and has ended has returned without an exception, and the row it
\* names is the row its statement leaves.
C20_RetryAppliesOnce ==
    \A t \in Writers :
        (~job[t].scoped /\ t \in locked /\ pc[t] \in {"done", "failed"})
            => (pc[t] = "done" /\ rows[t] = After(job, t))

(***************************************************************************)
(* One call of __sql_write against a store that may answer each execute    *)
(* and each commit with an OperationalError. wx is the call: pc where it   *)
(* is, intx the instance's _in_transactions, lock whether the thread holds *)
(* the file lock, success the local of that name, err the error the last   *)
(* store call raised, seen where 'database is locked' was met so far,      *)
(* tries how often the critical section was entered, out how the call      *)
(* ended.                                                                  *)
(***************************************************************************)
Locked == "database is locked"
NoTransaction == "cannot commit - no transaction is active"
ExecErrors == {Locked, "disk I/O error"}
CommitErrors == ExecErrors \cup {NoTransaction}

wxRest == <<facadeVars, rt, bk, tx, ct, concVars>>

WxInit ==
    /\ wx \in [pc : {"loop"}, intx : 0..1, lock : {FALSE}, success : {FALSE},
               err : {"none"}, seen : {<<>>}, tries : {0}, out : {"none"}]
    /\ FacadeIdle
    /\ rt = RtOff
    /\ bk = BkOff
    /\ tx = TxOff
    /\ ct = CtOff
    /\ ConcIdle

\* while not success: ... with self._databaseFileLock.getLock():
WxAcquire ==
    /\ wx.pc = "loop"
    /\ ~wx.success
    /\ wx' = [wx EXCEPT !.pc = "exec", !.lock = TRUE, !.tries = @ + 1]
    /\ UNCHANGED wxRest

\* The exception leaves the with block, which releases the lock, and reaches
\* the except clause; the loop then tests success.
WxHandle(w, where, msg) ==
    LET h == OnOperationalError(w.success, msg)
    IN  [w EXCEPT !.lock = FALSE,
                  !.success = h.success,
                  !.err = msg,
                  !.seen = IF msg = Locked THEN Append(@, where) ELSE @,
                  !.pc = IF h.raise THEN "raised"
                         ELSE IF h.success THEN "returned" ELSE "loop",
                  !.out = IF h.raise THEN msg ELSE IF h.success THEN "ok" ELSE @]

\* self.connection.execute(...); success = True; if not self._in_transactions
WxExecute ==
    /\ wx.pc = "exec"
    /\ \E r \in {"ok"} \cup ExecErrors :
          /\ r = Locked => Len(wx.seen) < MaxBusy
          /\ wx' = IF r # "ok" THEN WxHandle(wx, "execute", r)
                   ELSE IF wx.intx = 0
                   THEN [wx EXCEPT !.success = TRUE, !.err = "none", !.pc = "commit"]
                   ELSE [wx EXCEPT !.success = TRUE, !.err = "none", !.lock = FALSE,
                                   !.pc = "returned", !.out = "ok"]
    /\ UNCHANGED wxRest

\* self.connection.commit()
WxCommit ==
    /\ wx.pc = "commit"
    /\ \E r \in {"ok"} \cup CommitErrors :
          /\ r = Locked => Len(wx.seen) < MaxBusy
          /\ wx' = IF r # "ok" THEN WxHandle(wx, "commit", r)
                   ELSE [wx EXCEPT !.err = "none", !.lock = FALSE,
                                   !.pc = "returned", !.out = "ok"]
    /\ UNCHANGED wxRest

WxNext ==
    \/ WxAcquire
    \/ WxExecute
    \/ WxCommit

SpecWrite == WxInit /\ [][WxNext]_vars

\* C13 (as the code has it): an OperationalError of execute or commit leaves
\* the lock released; 'database is locked' sends the call back to the start
\* of the critical section, 'cannot commit - no transaction is active' ends
\* the call as a success, every other message ends the call with that error;
\* a call that has ended has entered the critical section once more than it
\* met 'database is locked'.
C13_ContentionRetriedOthersRaised ==
    [][/\ (wx.pc \in {"exec", "commit"} /\ wx'.err # "none")
            => /\ ~wx'.lock
               /\ CASE wx'.err = Locked -> wx'.pc = "loop" /\ wx'.out = "none"
                    [] wx'.err = NoTransaction -> wx'.pc = "returned" /\ wx'.out = "ok"
                    [] OTHER -> wx'.pc = "raised" /\ wx'.out = wx'.err
       /\ wx'.pc \in {"returned", "raised"}
            => ~wx'.lock /\ wx'.tries = Len(wx'.seen) + 1]_vars

\* The call met 'database is locked' at execute and at commit, entered the
\* critical section again each time, and then ended with another error.
C13_Witness ==
    /\ wx.pc = "raised"
    /\ wx.out = "disk I/O error"
    /\ ~wx.lock
    /\ \E j, k \in DOMAIN wx.seen : wx.seen[j] = "execute" /\ wx.seen[k] = "commit"

\* C13 as stated: every OperationalError of execute or commit other than
\* 'database is locked' ends the call by reaching the caller, the lock
\* released.
C13_EveryOtherErrorPropagates ==
    [][(wx.pc \in {"exec", "commit"} /\ wx'.err \notin {"none", Locked})
            => (wx'.pc = "raised" /\ wx'.out = wx'.err /\ ~wx'.lock)]_vars

(***************************************************************************)
(* __init__ step by step, one thread per instance being constructed: the   *)
(* test, the assignment and the read of the class attribute `locks` are    *)
(* three statements, and threads may take turns between them. ct.reg is    *)
(* `locks` (0: the filename is not a key), ct.made the number of           *)
(* DatabaseFileLock objects constructed so far, ct.mine the instance's     *)
(* _databaseFileLock.                                                      *)
(***************************************************************************)
Ctors == 1..MaxCtors
Paths == {"a", "b"}

ctRest == <<facadeVars, rt, bk, tx, wx, concVars>>

CtInit ==
    /\ ct \in [pc : {[t \in Ctors |-> "check"]}, path : [Ctors -> Paths],
               reg : {[p \in Paths |-> 0]}, made : {0}, mine : {[t \in Ctors |-> 0]}]
    /\ FacadeIdle
    /\ rt = RtOff
    /\ bk = BkOff
    /\ tx = TxOff
    /\ wx = WxOff
    /\ ConcIdle

\* if self.filename not in LocalStatusSQLiteFolder.locks:
CtCheck(t) ==
    /\ ct.pc[t] = "check"
    /\ ct' = [ct EXCEPT !.pc[t] = IF ct.reg[ct.path[t]] = 0 THEN "set" ELSE "read"]
    /\ UNCHANGED ctRest

\* LocalStatusSQLiteFolder.locks[self.filename] = DatabaseFileLock()
CtSet(t) ==
    /\ ct.pc[t] = "set"
    /\ ct' = [ct EXCEPT !.made = @ + 1, !.reg[ct.path[t]] = ct.made + 1, !.pc[t] = "read"]
    /\ UNCHANGED ctRest

\* self._databaseFileLock = LocalStatusSQLiteFolder.locks[self.filename]
CtRead(t) ==
    /\ ct.pc[t] = "read"
    /\ ct' = [ct EXCEPT !.mine[t] = ct.reg[ct.path[t]], !.pc[t] = "done"]
    /\ UNCHANGED ctRest

CtNext ==
    \E t \in Ctors :
        \/ CtCheck(t)
        \/ CtSet(t)
        \/ CtRead(t)

SpecCtor == CtInit /\ [][CtNext]_vars

\* C16: two instances constructed for the same filename hold the same lock
\* object.
C16_OneLockPerPath ==
    \A s, t \in Ctors :
        (ct.pc[s] = "done" /\ ct.pc[t] = "done" /\ ct.path[s] = ct.path[t])
            => ct.mine[s] = ct.mine[t]

(***************************************************************************)
(* The calls that write before they change messagelist, one call on        *)
(* instances that have opened the file and loaded it or not, and have      *)
(* closed their connection or not; the store may refuse any write.         *)
(***************************************************************************)
WriteFirstOps ==
    {"deletemessage", "deletemessages", "savemessageslabelsbulk", "addmessageslabels",
     "deletemessageslabels", "savemessagesmtimebulk"}

FailInit ==
    /\ dbver = cur_version
    /\ dbcols = {"mtime", "labels"}
    /\ rows \in InitTables
    /\ conn \in [Insts -> {"open", "closed"}]
    /\ users = Cardinality({i \in Insts : conn[i] = "open"})
    /\ life = conn
    /\ mirror \in [Insts -> {NoMsgs, Loaded(rows)}]
    /\ newfolder = [i \in Insts |-> FALSE]
    /\ hung = {}
    /\ last = NoCall
    /\ nops = MaxCalls - 1
    /\ rt = RtOff
    /\ bk = BkOff
    /\ tx = TxOff
    /\ ct = CtOff
    /\ wx = WxOff
    /\ ConcIdle

FailNext ==
    \E i \in Insts :
        \/ SaveMessagesLabelsBulk(i)
        \/ AddMessagesLabels(i)
        \/ DeleteMessagesLabels(i)
        \/ SaveMessagesMtimeBulk(i)
        \/ DeleteMessage(i)
        \/ DeleteMessages(i)

SpecFail == FailInit /\ [][FailNext]_vars

\* The exceptions __sql_write lets through to these callers.
WriteErrors == {"OperationalError", "ProgrammingError", "AttributeError"}

\* C21: a call of deletemessage, deletemessages, savemessageslabelsbulk,
\* addmessageslabels, deletemessageslabels or savemessagesmtimebulk whose
\* __sql_write raised leaves every messagelist, and table status, as it was.
C21_FailedWriteKeepsMirror ==
    [][(nops' # nops /\ last'.op \in WriteFirstOps /\ last'.stmt # "none"
        /\ last'.out \in WriteErrors)
            => (mirror' = mirror /\ rows' = rows)]_vars

\* A write of one of these calls was refused on an instance whose messagelist
\* holds a message the call names, its connection closed.
C21_Witness ==
    /\ last.op \in WriteFirstOps
    /\ last.stmt # "none"
    /\ last.out = "ProgrammingError"
    /\ \E u \in last.uids \cap Uids : mirror[last.inst][u].present

====
